---- MODULE Spec2Model ----
(***************************************************************************)
(* Verification model of the miningcore webui2 dashboard:                  *)
(*   - the pool detail page's endpoint selection and latency probing       *)
(*     (app/pools/[poolId]/page.tsx),                                      *)
(*   - the latency-probe route handler (POST /api/latency),                *)
(*   - the pool data client and its polling hooks (api/client.ts,          *)
(*     hooks/usePoolsData.ts, the blocks/payments effects).                *)
(***************************************************************************)
EXTENDS Integers, Sequences, FiniteSets, TLC

VARIABLES
    \* ---- pool detail page (page.tsx) ----
    ports,              \* pool?.ports of the viewed pool: port number -> PortConfig
    latencyMap,         \* useState latencyMap: row id -> LatencyState
    measured,           \* measuredRef.current: set of row ids
    inflight,           \* row id -> number of testLatency calls awaiting their response
    selectedGroupId,    \* useState selectedGroupId (Null or Val(id))
    selectedEndpointId, \* useState selectedEndpointId (Null or Val(id))
    manualSelection,    \* manualSelectionRef.current
    manualEndpoint,     \* manualEndpointRef.current
    dropped,            \* history: the manual endpoint a refresh removed (Null or Val(id))
    latest,             \* history: per endpoint, what became of its most recent probe
    picked,             \* result of the last pure selection function applied
    network,            \* what the network does to the probes of each endpoint, where fixed
    \* ---- latency route handler (POST) ----
    hpc,                \* position of the handler
    payload,            \* the parsed request body
    timeoutMs,          \* the timeout handed to socket.setTimeout
    socket,             \* state of the socket
    outcome,            \* what the handler's caller gets
    \* ---- pool data client ----
    pools, loading, error, lastUpdated,          \* usePoolsData state
    blocks, payments, blocksError, paymentsError, \* page.tsx blocks/payments state
    poolsReq,           \* fetchPools requests in flight
    blocksReq,          \* blocks/payments load() calls waiting for their blocks reply
    paymentsReq,        \* blocks/payments load() calls waiting for their payments reply
    clock,              \* Date.now()
    poolsData,          \* the last reply to GET /api/pools (response.data)
    poolsResponse,      \* what fetchPools() returned to load for that reply
    blocksData,         \* the last reply to the blocks request
    paymentsData,       \* the last reply to the payments request
    active,             \* the `active` flag of the polling effects: the view is mounted
    \* ---- miner lookup ----
    result, lookupError, submitting,     \* MinerLookupPanel state (error is lookupError)
    minerStats, minerError, minerLoading, \* Navigation state
    lookupReply,        \* history: how the panel's last lookup ended
    minerReply,         \* history: how the navigation's last lookup ended
    \* ---- Connect page and its stratum latency panel ----
    connectPools,       \* usePoolsData().pools of the Connect page, as served
    activePoolId,       \* useState activePoolId (Null or Val(id))
    requested,          \* searchParams.get('pool')?.toLowerCase() (Undef or Val(id))
    panelMap,           \* useState latencyMap of the panel: location id -> LatencyState
    panelInflight,      \* location id -> number of panel testLatency calls awaiting their response
    userPick            \* history: the pool the user picked last, while it is listed

pageVars == <<ports, latencyMap, measured, inflight, selectedGroupId,
              selectedEndpointId, manualSelection, manualEndpoint, dropped, latest,
              picked, network>>
probeVars == <<hpc, payload, timeoutMs, socket, outcome>>
dataVars == <<pools, loading, error, lastUpdated, blocks, payments,
              blocksError, paymentsError, poolsReq, blocksReq, paymentsReq, clock,
              poolsData, poolsResponse, blocksData, paymentsData, active>>
lookupVars == <<result, lookupError, submitting, minerStats, minerError,
                minerLoading, lookupReply, minerReply>>
connectVars == <<connectPools, activePoolId, requested, panelMap, panelInflight, userPick>>
vars == <<pageVars, probeVars, dataVars, lookupVars, connectVars>>

-----------------------------------------------------------------------------
(* JavaScript values: null, undefined and present values are kept apart.   *)

Null == <<"null">>
Undef == <<"undefined">>
Val(x) == <<"val", x>>
IsVal(o) == Len(o) = 2
Get(o) == o[2]
\* a ?? b
Coalesce(a, b) == IF IsVal(a) THEN a ELSE b

(* Strings whose characters the code inspects are sequences of characters.  *)
UpperChars == <<"A","B","C","D","E","F","G","H","I","J","K","L","M",
                "N","O","P","Q","R","S","T","U","V","W","X","Y","Z">>
LowerChars == <<"a","b","c","d","e","f","g","h","i","j","k","l","m",
                "n","o","p","q","r","s","t","u","v","w","x","y","z">>
DigitChars == <<"0","1","2","3","4","5","6","7","8","9">>

Range(s) == { s[i] : i \in DOMAIN s }

\* String.prototype.toLowerCase
ToLowerChar(c) ==
    IF \E i \in DOMAIN UpperChars : UpperChars[i] = c
    THEN LowerChars[CHOOSE i \in DOMAIN UpperChars : UpperChars[i] = c]
    ELSE c
ToLowerCase(s) == [i \in DOMAIN s |-> ToLowerChar(s[i])]

\* String.prototype.includes
Includes(s, p) ==
    \E i \in 0..(Len(s) - Len(p)) : SubSeq(s, i + 1, i + Len(p)) = p

\* s.replace(/[^a-z0-9]/g, '')
IsLowerAlnum(c) == c \in Range(LowerChars) \cup Range(DigitChars)
Condense(s) == SelectSeq(s, IsLowerAlnum)

\* String.prototype.trim (spaces are the only white space of the inputs)
RECURSIVE TrimStart(_)
TrimStart(s) == IF s # <<>> /\ Head(s) = " " THEN TrimStart(Tail(s)) ELSE s
RECURSIVE TrimEnd(_)
TrimEnd(s) ==
    IF s # <<>> /\ s[Len(s)] = " " THEN TrimEnd(SubSeq(s, 1, Len(s) - 1)) ELSE s
Trim(s) == TrimEnd(TrimStart(s))

-----------------------------------------------------------------------------
(* Pool detail page: rows, groups, default and best-latency endpoints.      *)

StratumHost == "pool.local"

\* ascending order of a finite set of integers
RECURSIVE SortedSeq(_)
SortedSeq(S) ==
    IF S = {} THEN <<>>
    ELSE LET m == CHOOSE x \in S : \A y \in S : x <= y
         IN <<m>> \o SortedSeq(S \ {m})

\* Object.entries(pool.ports): integer-like keys come in ascending order
PortEntries(pm) == SortedSeq(DOMAIN pm)

RowId(port) == StratumHost \o "-" \o ToString(port)
DefaultRowId == "default"

ConnectionRows(pm) ==
    IF PortEntries(pm) = <<>>
    THEN << [id |-> DefaultRowId, host |-> StratumHost, port |-> 3333,
             profileName |-> Undef, difficulty |-> Undef, varDiffMin |-> Undef] >>
    ELSE [i \in DOMAIN PortEntries(pm) |->
            LET port == PortEntries(pm)[i]
                config == pm[port]
            IN [id |-> RowId(port), host |-> StratumHost, port |-> port,
                profileName |-> Coalesce(config.name, Null),
                difficulty |-> Coalesce(config.difficulty, Null),
                varDiffMin |-> Coalesce(config.varDiffMin, Null)]]

\* Array.prototype.find: Undef when no element matches
Find(seq, Test(_)) ==
    IF \E i \in DOMAIN seq : Test(seq[i])
    THEN Val(seq[CHOOSE i \in DOMAIN seq :
                    Test(seq[i]) /\ \A j \in 1..(i - 1) : ~Test(seq[j])])
    ELSE Undef

\* rows in ascending port order ([...endpoints].sort((a, b) => a.port - b.port))
RECURSIVE SortByPort(_)
SortByPort(rows) ==
    IF rows = <<>> THEN <<>>
    ELSE LET i == CHOOSE k \in DOMAIN rows :
                    /\ \A j \in DOMAIN rows : rows[k].port <= rows[j].port
                    /\ \A j \in 1..(k - 1) : rows[j].port # rows[k].port
         IN <<rows[i]>> \o
            SortByPort(SubSeq(rows, 1, i - 1) \o SubSeq(rows, i + 1, Len(rows)))

\* hosts in order of first appearance (Map insertion order)
RECURSIVE HostsOf(_)
HostsOf(rows) ==
    IF rows = <<>> THEN <<>>
    ELSE LET rest == HostsOf(SubSeq(rows, 1, Len(rows) - 1))
             h == rows[Len(rows)].host
         IN IF h \in Range(rest) THEN rest ELSE Append(rest, h)

ConnectionGroups(rows) ==
    [i \in DOMAIN HostsOf(rows) |->
        LET h == HostsOf(rows)[i]
        IN [id |-> h, host |-> h,
            endpoints |-> SortByPort(SelectSeq(rows, LAMBDA r : r.host = h))]]

IsMidTier(row) ==
    LET profile == ToLowerCase(IF IsVal(row.profileName) THEN Get(row.profileName) ELSE <<>>)
        condensed == Condense(profile)
    IN \/ Includes(condensed, <<"m","i","d","r","a","n","g","e">>)
       \/ Includes(condensed, <<"m","i","d","t","i","e","r">>)
       \/ Includes(condensed, <<"m","e","d","i","u","m">>)

\* mutant: only the fixed difficulty is looked at
IsPreferredFixedDifficulty(row) ==
    IsVal(row.difficulty) /\ Get(row.difficulty) > 0 /\ Get(row.difficulty) <= 2048

IsPreferredDifficulty(row) ==
    LET diff == Coalesce(row.difficulty, Coalesce(row.varDiffMin, Null))
    IN IsVal(diff) /\ Get(diff) > 0 /\ Get(diff) <= 2048

\* Null, or Val(row)
DefaultEndpointRow(rows) ==
    IF Len(rows) = 0 THEN Null
    ELSE LET midTier == Find(rows, IsMidTier)
             preferred == Find(rows, IsPreferredDifficulty)
         IN IF IsVal(midTier) THEN midTier
            ELSE IF IsVal(preferred) THEN preferred
            ELSE Val(rows[1])

IsSuccess(lm, id) ==
    /\ id \in DOMAIN lm
    /\ lm[id].status = "success"
    /\ IsVal(lm[id].latency)

\* the forEach loop of bestLatencyRow / fastestEndpointFor: best starts at Null
\* (bestLatency at +Infinity) and is replaced by each strictly faster success
RECURSIVE BestFoldTiesLast(_, _, _, _)
RECURSIVE BestFold(_, _, _, _)
\* mutant: an equally fast later row replaces the best
BestFoldTiesLast(rows, lm, i, best) ==
    IF i > Len(rows) THEN best
    ELSE BestFoldTiesLast(rows, lm, i + 1,
            IF /\ IsSuccess(lm, rows[i].id)
               /\ (IsVal(best) =>
                     Get(lm[rows[i].id].latency) <= Get(lm[Get(best).id].latency))
            THEN Val(rows[i])
            ELSE best)

BestFold(rows, lm, i, best) ==
    IF i > Len(rows) THEN best
    ELSE BestFold(rows, lm, i + 1,
            IF /\ IsSuccess(lm, rows[i].id)
               /\ (IsVal(best) =>
                     Get(lm[rows[i].id].latency) < Get(lm[Get(best).id].latency))
            THEN Val(rows[i])
            ELSE best)
BestOf(rows, lm) == BestFold(rows, lm, 1, Null)

BestLatencyRow(rows, lm) == BestOf(rows, lm)

\* groupByHost.get(host) ?? null for the host of an optional row
GroupOfRow(groups, optRow) ==
    IF IsVal(optRow)
    THEN Coalesce(Find(groups, LAMBDA g : g.host = Get(optRow).host), Null)
    ELSE Null

Cfg(name, difficulty, varDiffMin) ==
    [name |-> name, difficulty |-> difficulty, varDiffMin |-> varDiffMin]
Plain == Cfg(Undef, Undef, Undef)
NameMid == <<"M","i","d">>
NameMedium == <<"M","e","d","i","u","m">>
NameMidRange == <<"M","i","d","-","R","a","n","g","e">>
NameLow == <<"L","o","w">>

\* the port maps the pools API serves for the viewed pool over a session
NoPorts == [port \in {} |-> Plain]
PortMaps ==
    { NoPorts,
      3333 :> Cfg(Val(NameLow), Undef, Val(512))
        @@ 3355 :> Cfg(Val(NameMedium), Undef, Val(4096)),
      3333 :> Plain @@ 3355 :> Cfg(Val(NameMid), Undef, Undef) }

\* a pool whose port map has the key "0"
MisconfiguredPorts == 0 :> Plain
KnownPortMaps == PortMaps \cup {MisconfiguredPorts}

PortNumbers == UNION { DOMAIN pm : pm \in KnownPortMaps }
RowIds == {DefaultRowId} \cup { RowId(port) : port \in PortNumbers }

\* the useMemo values of a render, by the port map they are computed from
connectionRows == [pm \in KnownPortMaps |-> ConnectionRows(pm)]
connectionGroups == [pm \in KnownPortMaps |-> ConnectionGroups(connectionRows[pm])]
defaultEndpointRow == [pm \in KnownPortMaps |-> DefaultEndpointRow(connectionRows[pm])]
defaultGroup ==
    [pm \in KnownPortMaps |-> GroupOfRow(connectionGroups[pm], defaultEndpointRow[pm])]

BestLatencyGroup(pm, lm) ==
    GroupOfRow(connectionGroups[pm], BestLatencyRow(connectionRows[pm], lm))

\* groupById.get(selectedGroupId) ?? null
SelectedGroup(pm, gid) ==
    IF IsVal(gid)
    THEN Coalesce(Find(connectionGroups[pm], LAMBDA g : g.id = Get(gid)), Null)
    ELSE Null

FirstOrNull(seq) == IF Len(seq) > 0 THEN Val(seq[1]) ELSE Null

FastestEndpointFor(group, lm) ==
    IF ~IsVal(group) THEN Null
    ELSE Coalesce(BestOf(Get(group).endpoints, lm), FirstOrNull(Get(group).endpoints))

\* mutant: the fastest endpoint first, the default endpoint only without one
PickFastestFirst(group, pm, lm) ==
    IF ~IsVal(group) THEN Null
    ELSE Coalesce(BestOf(Get(group).endpoints, lm),
            Coalesce(defaultEndpointRow[pm], FirstOrNull(Get(group).endpoints)))

PickEndpointForGroup(group, pm, lm) ==
    IF ~IsVal(group) THEN Null
    ELSE LET g == Get(group)
             def == defaultEndpointRow[pm]
             match == IF IsVal(def) /\ Get(def).host = g.host
                      THEN Find(g.endpoints, LAMBDA e : e.id = Get(def).id)
                      ELSE Undef
             midTier == Find(g.endpoints, LAMBDA e :
                            IsVal(e.profileName)
                            /\ Includes(ToLowerCase(Get(e.profileName)), <<"m","i","d">>))
             varDiffEndpoint == Find(g.endpoints, LAMBDA e :
                            e.difficulty = Null \/ e.varDiffMin # Null)
         IN IF IsVal(match) THEN match
            ELSE IF IsVal(midTier) THEN midTier
            ELSE IF IsVal(varDiffEndpoint) THEN varDiffEndpoint
            ELSE FastestEndpointFor(group, lm)

-----------------------------------------------------------------------------
(* Latency route handler: POST /api/latency.                                *)

\* JSON scalars of the request body
JStr(s) == <<"str", s>>
JNum(n) == <<"num", n>>
\* a non-integer number strictly between n and n + 1
JFrac(n) == <<"frac", n>>
NaN == <<"nan">>
Tag(v) == v[1]

IsDigits(s) == s # <<>> /\ \A i \in DOMAIN s : s[i] \in Range(DigitChars)
DigitValue(c) == (CHOOSE i \in DOMAIN DigitChars : DigitChars[i] = c) - 1
RECURSIVE DecimalValue(_)
DecimalValue(s) ==
    IF s = <<>> THEN 0
    ELSE 10 * DecimalValue(SubSeq(s, 1, Len(s) - 1)) + DigitValue(s[Len(s)])

\* Number(x) for undefined, strings of digits, letters and spaces, and numbers
ToNumber(v) ==
    CASE Tag(v) = "undefined" -> NaN
      [] Tag(v) = "num" -> v
      [] Tag(v) = "frac" -> v
      [] Tag(v) = "str" ->
            IF Trim(v[2]) = <<>> THEN JNum(0)
            ELSE IF IsDigits(Trim(v[2])) THEN JNum(DecimalValue(Trim(v[2])))
            ELSE NaN

\* x || d on numbers: NaN and 0 are falsy
OrElse(x, d) == IF x = NaN \/ x = JNum(0) THEN d ELSE x

\* Math.max / Math.min of a number and an integer bound
MathMax(x, b) ==
    CASE Tag(x) = "num" -> IF x[2] >= b THEN x ELSE JNum(b)
      [] Tag(x) = "frac" -> IF x[2] >= b THEN x ELSE JNum(b)
MathMin(x, b) ==
    CASE Tag(x) = "num" -> IF x[2] <= b THEN x ELSE JNum(b)
      [] Tag(x) = "frac" -> IF x[2] < b THEN x ELSE JNum(b)

\* payload.host?.trim(): Undef, or the trimmed string
HostOf(p) == IF Tag(p.host) = "str" THEN JStr(Trim(p.host[2])) ELSE Undef
\* .trim is not a function on a number: the call throws a TypeError
HostThrows(p) == Tag(p.host) \in {"num", "frac"}

PortOf(p) == ToNumber(p.port)
\* mutant: the lower limit is not applied
TimeoutWithoutLowerLimit(p) == MathMin(OrElse(ToNumber(p.timeout), JNum(3000)), 10000)
TimeoutOf(p) == MathMin(MathMax(OrElse(ToNumber(p.timeout), JNum(3000)), 500), 10000)

\* port <= 0
LeqZero(x) ==
    CASE Tag(x) = "num" -> x[2] <= 0
      [] Tag(x) = "frac" -> x[2] < 0
      [] OTHER -> FALSE

\* !host || Number.isNaN(port) || port <= 0
Rejected(p) ==
    \/ HostOf(p) = Undef
    \/ HostOf(p) = JStr(<<>>)
    \/ PortOf(p) = NaN
    \/ LeqZero(PortOf(p))

\* net.createConnection({host, port}) validates the port before connecting and
\* throws RangeError (ERR_SOCKET_BAD_PORT) unless it is an integer in 0..65535
PortAccepted(x) == Tag(x) = "num" /\ x[2] >= 0 /\ x[2] <= 65535

NoOutcome == [kind |-> "none", status |-> 0, body |-> [latency |-> Undef, error |-> Undef]]
Response(status, latency, err) ==
    [kind |-> "response", status |-> status, body |-> [latency |-> latency, error |-> err]]
Thrown == [kind |-> "thrown", status |-> 0, body |-> [latency |-> Undef, error |-> Undef]]

InvalidJsonResponse == Response(400, Undef, Val("Invalid JSON payload"))
RejectedResponse == Response(400, Undef, Val("host and port are required"))
ConnectedResponse(latency) == Response(200, Val(latency), Undef)
\* mutant: the failure is reported without its error field
HandleFailureWithoutError(err) == Response(200, Null, Undef)

HandleFailure(err) == Response(200, Null, Val(err))

\* every outcome POST can have for a parsed body p (p.json is FALSE when
\* request.json() throws), over the events the network can produce
HandlerOutcomes(p, latencies) ==
    IF ~p.json THEN {InvalidJsonResponse}
    ELSE IF HostThrows(p) THEN {Thrown}
    ELSE IF Rejected(p) THEN {RejectedResponse}
    ELSE IF ~PortAccepted(PortOf(p)) THEN {Thrown}
    ELSE { ConnectedResponse(l) : l \in latencies }
         \cup { HandleFailure("timeout"), HandleFailure("connect-error") }

-----------------------------------------------------------------------------
(* Pool detail page: state machine.                                         *)

\* a retest is explored while fewer probes than this are in flight: in the
\* exploration of the whole page, and in the exploration of retests
MaxInFlight == 1
MaxOverlap == 2
Latencies == {40, 80}

StratumHostChars == <<"p","o","o","l",".","l","o","c","a","l">>

\* JSON.stringify({ host: row.host, port: row.port, timeout: 4000 })
ProbeBody(row) ==
    [json |-> TRUE, host |-> JStr(StratumHostChars), port |-> JNum(row.port),
     timeout |-> JNum(4000)]

RowOfId(id) ==
    IF id = DefaultRowId THEN connectionRows[NoPorts][1]
    ELSE LET port == CHOOSE q \in PortNumbers : RowId(q) = id
         IN [id |-> id, host |-> StratumHost, port |-> port]

\* what `await fetch(...)` and `await response.json()` yield in testLatency:
\* a JSON response of the handler, or a failure (fetch rejects, or the body of
\* the 500 page answering a handler that threw is not JSON)
FetchFailed == [kind |-> "failed", status |-> 0, body |-> [latency |-> Undef, error |-> Undef]]
FetchResults(row) ==
    { IF o.kind = "thrown" THEN FetchFailed ELSE o :
        o \in HandlerOutcomes(ProbeBody(row), Latencies) } \cup {FetchFailed}

Testing == [latency |-> Null, status |-> "testing", error |-> Undef]
\* mutant: a settled request leaves the sample in testing
SampleStillTesting(res) == Testing

\* mutant: a connection made slowly is stored as a failure
SampleBySpeed(res) ==
    IF \/ res.kind = "failed"
       \/ ~(res.status >= 200 /\ res.status <= 299)
       \/ res.body.latency \in {Null, Val(80)}
    THEN [latency |-> Null, status |-> "error", error |-> Val("unreachable")]
    ELSE [latency |-> Val(IF IsVal(res.body.latency) THEN Get(res.body.latency) ELSE 0),
          status |-> "success", error |-> Undef]

\* the LatencyState testLatency stores when its request settles
SampleOf(res) ==
    IF res.kind = "failed"
    THEN [latency |-> Null, status |-> "error", error |-> Val("network-error")]
    ELSE IF ~(res.status >= 200 /\ res.status <= 299) \/ res.body.latency = Null
    THEN [latency |-> Null, status |-> "error",
          error |-> Coalesce(res.body.error, Val("unreachable"))]
    ELSE [latency |-> Val(IF IsVal(res.body.latency) THEN Get(res.body.latency) ELSE 0),
          status |-> "success", error |-> Undef]

\* mutant: the sample replaces the map instead of being merged into it
PutAlone(lm, key, sample) == [k \in {key} |-> sample]

\* { ...prev, [key]: sample }
Put(lm, key, sample) ==
    [k \in DOMAIN lm \cup {key} |-> IF k = key THEN sample ELSE lm[k]]

\* testLatency(row) for every row of ids, up to the await
RECURSIVE StartAll(_, _)
StartAll(lm, ids) ==
    IF ids = {} THEN lm
    ELSE LET id == CHOOSE x \in ids : TRUE
         IN StartAll(Put(lm, id, Testing), ids \ {id})

(* The two reconciliation effects. st is the selection state                *)
(* [gid, eid, manSel, manEp] of the render the effects belong to.           *)

FallbackGroup(pm, lm) ==
    Coalesce(BestLatencyGroup(pm, lm),
        Coalesce(defaultGroup[pm], FirstOrNull(connectionGroups[pm])))

IdOrNull(opt) == IF IsVal(opt) THEN Val(Get(opt).id) ELSE Null

GroupEffect(pm, lm, st) ==
    IF Len(connectionGroups[pm]) = 0
    THEN [gid |-> Null, eid |-> Null, manSel |-> FALSE, manEp |-> FALSE]
    ELSE LET stillExists == IsVal(SelectedGroup(pm, st.gid))
             nextId == IdOrNull(FallbackGroup(pm, lm))
         IN IF (~st.manSel \/ ~stillExists) /\ nextId # st.gid
            THEN [st EXCEPT !.manSel = FALSE, !.gid = nextId]
            ELSE st

\* mutant: the manual flag is not consulted
EndpointEffectIgnoringManual(fallbackGroup, pm, lm, st) ==
    IF ~IsVal(fallbackGroup)
    THEN [st EXCEPT !.manEp = FALSE, !.eid = Null]
    ELSE LET nextEndpointId == IdOrNull(PickEndpointForGroup(fallbackGroup, pm, lm))
         IN IF nextEndpointId # st.eid
            THEN [st EXCEPT !.manEp = FALSE, !.eid = nextEndpointId]
            ELSE st

\* mutant: a manual selection is kept even when its endpoint is gone
EndpointEffectKeepingGone(fallbackGroup, pm, lm, st) ==
    IF ~IsVal(fallbackGroup)
    THEN [st EXCEPT !.manEp = FALSE, !.eid = Null]
    ELSE LET nextEndpointId == IdOrNull(PickEndpointForGroup(fallbackGroup, pm, lm))
         IN IF ~st.manEp /\ nextEndpointId # st.eid
            THEN [st EXCEPT !.manEp = FALSE, !.eid = nextEndpointId]
            ELSE st

EndpointEffectIn(fallbackGroup, pm, lm, st) ==
    IF ~IsVal(fallbackGroup)
    THEN [st EXCEPT !.manEp = FALSE, !.eid = Null]
    ELSE LET endpoints == Get(fallbackGroup).endpoints
             stillExists == /\ IsVal(st.eid)
                            /\ \E i \in DOMAIN endpoints : endpoints[i].id = Get(st.eid)
             nextEndpointId == IdOrNull(PickEndpointForGroup(fallbackGroup, pm, lm))
         IN IF (~st.manEp \/ ~stillExists) /\ nextEndpointId # st.eid
            THEN [st EXCEPT !.manEp = FALSE, !.eid = nextEndpointId]
            ELSE st

EndpointEffect(pm, lm, st) ==
    EndpointEffectIn(Coalesce(SelectedGroup(pm, st.gid), FallbackGroup(pm, lm)), pm, lm, st)

\* what a render's two effects leave: g after the group effect, e after the
\* endpoint effect; both read the render's gid and eid, the refs are shared
MergeEffects(st, g, e) ==
    [gid |-> g.gid, manSel |-> g.manSel, manEp |-> e.manEp,
     eid |-> IF e.eid # st.eid THEN e.eid ELSE g.eid]

EndpointAfterGroup(pm, lm, st, g) ==
    MergeEffects(st, g, EndpointEffect(pm, lm, [st EXCEPT !.manEp = g.manEp]))

EffectsPass(pm, lm, st) == EndpointAfterGroup(pm, lm, st, GroupEffect(pm, lm, st))

\* re-render until no effect sets state any more
RECURSIVE Settle(_, _, _)
SettleStep(pm, lm, st, next) == IF next = st THEN st ELSE Settle(pm, lm, next)
Settle(pm, lm, st) == SettleStep(pm, lm, st, EffectsPass(pm, lm, st))

Selection ==
    [gid |-> selectedGroupId, eid |-> selectedEndpointId,
     manSel |-> manualSelection, manEp |-> manualEndpoint]

SetSelection(st) ==
    /\ selectedGroupId' = st.gid
    /\ selectedEndpointId' = st.eid
    /\ manualSelection' = st.manSel
    /\ manualEndpoint' = st.manEp

EffectiveSelectedGroup(pm, lm, gid) ==
    Coalesce(SelectedGroup(pm, gid), FallbackGroup(pm, lm))

\* mutant: the endpoint chosen by id is shown wherever it was listed
EffectiveEndpointById(pm, lm, gid, eid) ==
    LET group == EffectiveSelectedGroup(pm, lm, gid)
    IN IF ~IsVal(group) THEN Null
       ELSE IF IsVal(eid) THEN Val(RowOfId(Get(eid)))
       ELSE PickEndpointForGroup(group, pm, lm)

EffectiveSelectedEndpoint(pm, lm, gid, eid) ==
    LET group == EffectiveSelectedGroup(pm, lm, gid)
    IN IF ~IsVal(group) THEN Null
       ELSE LET explicit == IF IsVal(eid)
                            THEN Find(Get(group).endpoints, LAMBDA e : e.id = Get(eid))
                            ELSE Undef
            IN IF IsVal(explicit) THEN explicit
               ELSE PickEndpointForGroup(group, pm, lm)

Rows == connectionRows[ports]
RowIdsOf(rows) == { rows[i].id : i \in DOMAIN rows }

\* mutant: every listed row is probed again
UnmeasuredOrNot(rows) == RowIdsOf(rows)

\* the auto-probe effect: testLatency for every row not yet in measuredRef
Unmeasured(rows) == { id \in RowIdsOf(rows) : id \notin measured }

Dispatch(ids) ==
    /\ latencyMap' = StartAll(latencyMap, ids)
    /\ measured' = measured \cup ids
    /\ inflight' = [id \in RowIds |-> IF id \in ids THEN inflight[id] + 1 ELSE inflight[id]]
    /\ latest' = [id \in RowIds |-> IF id \in ids THEN "pending" ELSE latest[id]]

\* a pools poll commits a list in which the viewed pool has port map pm
Refresh(pm) ==
    /\ ports' = pm
    /\ Dispatch(Unmeasured(connectionRows[pm]))
    /\ SetSelection(Settle(pm, latencyMap', EffectsPass(pm, latencyMap, Selection)))
    /\ dropped' = IF /\ manualEndpoint
                     /\ IsVal(selectedEndpointId)
                     /\ Get(selectedEndpointId) \notin RowIdsOf(connectionRows[pm])
                  THEN selectedEndpointId
                  ELSE dropped
    /\ UNCHANGED <<picked, network, probeVars, dataVars, lookupVars, connectVars>>

\* the request of a testLatency(row) call settles: that of the call made last
\* for the row (isLatest), or that of an earlier call still waiting
ProbeComplete(id, res, isLatest) ==
    /\ inflight[id] > 0
    /\ IF isLatest THEN latest[id] = "pending"
       ELSE inflight[id] > (IF latest[id] = "pending" THEN 1 ELSE 0)
    /\ res \in FetchResults(RowOfId(id))
    /\ latencyMap' = Put(latencyMap, id, SampleOf(res))
    /\ inflight' = [inflight EXCEPT ![id] = @ - 1]
    /\ latest' = [latest EXCEPT ![id] = IF isLatest THEN "stored"
                                         ELSE IF @ = "pending" THEN "pending"
                                         ELSE "overwritten"]
    /\ SetSelection(Settle(ports, latencyMap', Selection))
    /\ UNCHANGED <<ports, measured, dropped, picked, network, probeVars, dataVars, lookupVars, connectVars>>

RemeasureAll ==
    /\ Dispatch(RowIdsOf(Rows))
    /\ SetSelection(Settle(ports, latencyMap', Selection))
    /\ UNCHANGED <<ports, dropped, picked, network, probeVars, dataVars, lookupVars, connectVars>>

\* mutant: the endpoint selection is reset for the current group as well
SelectGroupResetting(groupId) ==
    /\ \E i \in DOMAIN connectionGroups[ports] : connectionGroups[ports][i].id = groupId
    /\ SetSelection(Settle(ports, latencyMap,
          [gid |-> Val(groupId), eid |-> Null, manSel |-> TRUE, manEp |-> FALSE]))
    /\ UNCHANGED <<ports, latencyMap, measured, inflight, dropped, latest, picked, network,
                   probeVars, dataVars, lookupVars, connectVars>>

SelectGroup(groupId) ==
    /\ \E i \in DOMAIN connectionGroups[ports] : connectionGroups[ports][i].id = groupId
    /\ SetSelection(Settle(ports, latencyMap,
          IF Val(groupId) # selectedGroupId
          THEN [gid |-> Val(groupId), eid |-> Null, manSel |-> TRUE, manEp |-> FALSE]
          ELSE [Selection EXCEPT !.manSel = TRUE]))
    /\ UNCHANGED <<ports, latencyMap, measured, inflight, dropped, latest, picked, network,
                   probeVars, dataVars, lookupVars, connectVars>>

\* a click on an endpoint of the group shown as selected
SelectEndpoint(endpointId) ==
    LET group == EffectiveSelectedGroup(ports, latencyMap, selectedGroupId)
    IN /\ IsVal(group)
       /\ endpointId \in RowIdsOf(Get(group).endpoints)
       /\ SetSelection(Settle(ports, latencyMap,
             [gid |-> Val(Get(group).id), eid |-> Val(endpointId),
              manSel |-> TRUE, manEp |-> TRUE]))
       /\ dropped' = Null
       /\ UNCHANGED <<ports, latencyMap, measured, inflight, latest, picked, network,
                      probeVars, dataVars, lookupVars, connectVars>>

NoSamples == [id \in {} |-> Testing]
Blank == [gid |-> Null, eid |-> Null, manSel |-> FALSE, manEp |-> FALSE]

\* the page after its first render's effects: no pool is loaded yet, the one
\* placeholder row is being probed and is the selection
PageInit ==
    /\ ports = NoPorts
    /\ latencyMap = StartAll(NoSamples, RowIdsOf(connectionRows[NoPorts]))
    /\ measured = RowIdsOf(connectionRows[NoPorts])
    /\ inflight = [id \in RowIds |->
                     IF id \in RowIdsOf(connectionRows[NoPorts]) THEN 1 ELSE 0]
    /\ LET st == Settle(NoPorts, latencyMap, EffectsPass(NoPorts, NoSamples, Blank))
       IN /\ selectedGroupId = st.gid
          /\ selectedEndpointId = st.eid
          /\ manualSelection = st.manSel
          /\ manualEndpoint = st.manEp
    /\ dropped = Null
    /\ latest = [id \in RowIds |->
                   IF id \in RowIdsOf(connectionRows[NoPorts]) THEN "pending" ELSE "none"]
    /\ picked = Null

-----------------------------------------------------------------------------
(* The selection functions on their own: a port map is drawn, the function  *)
(* is applied to its rows.                                                  *)

DrawnConfigs ==
    { Plain, Cfg(Val(NameMid), Undef, Undef), Cfg(Val(NameMedium), Undef, Undef),
      Cfg(Val(NameMidRange), Undef, Undef), Cfg(Undef, Val(4096), Undef),
      Cfg(Undef, Val(1024), Undef), Cfg(Undef, Val(2048), Undef),
      Cfg(Undef, Undef, Val(512)), Cfg(Undef, Val(4096), Val(512)),
      Cfg(Undef, Val(0), Val(512)) }
DrawnPortMaps ==
    {NoPorts} \cup [{3333, 3355, 3377} -> DrawnConfigs] \cup [{100, 200} -> DrawnConfigs]

\* the samples testLatency can have stored for a row
DrawnSamples ==
    { Testing,
      [latency |-> Null, status |-> "error", error |-> Val("timeout")],
      [latency |-> Val(40), status |-> "success", error |-> Undef],
      [latency |-> Val(80), status |-> "success", error |-> Undef] }
ThreePorts == [port \in {3333, 3355, 3377} |-> Plain]
DrawnLatencyMaps ==
    UNION { [D -> DrawnSamples] : D \in SUBSET RowIdsOf(ConnectionRows(ThreePorts)) }

PickPageInit ==
    /\ \/ ports \in DrawnPortMaps /\ latencyMap = NoSamples
       \/ ports = ThreePorts /\ latencyMap \in DrawnLatencyMaps
    /\ measured = {}
    /\ inflight = [id \in RowIds |-> 0]
    /\ selectedGroupId = Null
    /\ selectedEndpointId = Null
    /\ manualSelection = FALSE
    /\ manualEndpoint = FALSE
    /\ dropped = Null
    /\ latest = [id \in RowIds |-> "none"]
    /\ picked = Null

PickDefault ==
    /\ picked = Null
    /\ picked' = Val([fn |-> "defaultEndpointRow",
                      row |-> DefaultEndpointRow(ConnectionRows(ports))])
    /\ UNCHANGED <<ports, latencyMap, measured, inflight, selectedGroupId,
                   selectedEndpointId, manualSelection, manualEndpoint, dropped,
                   latest, network, probeVars, dataVars, lookupVars, connectVars>>

PickBest ==
    /\ picked = Null
    /\ picked' = Val([fn |-> "bestLatencyRow",
                      row |-> BestLatencyRow(ConnectionRows(ports), latencyMap)])
    /\ UNCHANGED <<ports, latencyMap, measured, inflight, selectedGroupId,
                   selectedEndpointId, manualSelection, manualEndpoint, dropped,
                   latest, network, probeVars, dataVars, lookupVars, connectVars>>

-----------------------------------------------------------------------------
(* Latency route handler: state machine.                                    *)

NoPayload == [json |-> FALSE, host |-> Undef, port |-> Undef, timeout |-> Undef]

Letters == <<"a","b","c">>
HostInputs ==
    { Undef, JStr(<<>>), JStr(<<" ">>), JStr(StratumHostChars), JNum(5) }
PortInputs ==
    { Undef, JNum(0), JNum(0 - 1), JNum(3333), JNum(65535), JNum(65536), JFrac(80),
      JStr(Letters), JStr(<<"3","3","3","3">>) }
TimeoutInputs ==
    { Undef, JStr(Letters), JStr(<<"9","0","0">>), JNum(0), JNum(0 - 5), JNum(100),
      JNum(500), JNum(4000), JNum(10000), JNum(20000) }
Payloads ==
    {NoPayload} \cup
    [json : {TRUE}, host : HostInputs, port : PortInputs, timeout : TimeoutInputs]

ProbeInit ==
    /\ hpc = "idle"
    /\ payload = NoPayload
    /\ timeoutMs = Undef
    /\ socket = "none"
    /\ outcome = NoOutcome

\* lines 27-40: parse and validate the body
Receive(p) ==
    /\ hpc = "idle"
    /\ payload' = p
    /\ IF ~p.json THEN hpc' = "done" /\ outcome' = InvalidJsonResponse
       ELSE IF HostThrows(p) THEN hpc' = "done" /\ outcome' = Thrown
       ELSE IF Rejected(p) THEN hpc' = "done" /\ outcome' = RejectedResponse
       ELSE hpc' = "connect" /\ outcome' = outcome
    /\ UNCHANGED <<timeoutMs, socket, pageVars, dataVars, lookupVars, connectVars>>

\* lines 42-56: the promise executor
CreateConnection ==
    /\ hpc = "connect"
    /\ IF PortAccepted(PortOf(payload))
       THEN /\ hpc' = "await"
            /\ socket' = "connecting"
            /\ timeoutMs' = TimeoutOf(payload)
            /\ outcome' = outcome
       ELSE /\ hpc' = "done"
            /\ outcome' = Thrown
            /\ UNCHANGED <<socket, timeoutMs>>
    /\ UNCHANGED <<payload, pageVars, dataVars, lookupVars, connectVars>>

\* the connect listener
OnConnect(latency) ==
    /\ hpc = "await"
    /\ socket = "connecting"
    /\ socket' = "destroyed"
    /\ outcome' = ConnectedResponse(latency)
    /\ hpc' = "done"
    /\ UNCHANGED <<payload, timeoutMs, pageVars, dataVars, lookupVars, connectVars>>

\* socket.setTimeout(timeout, handleFailure("timeout"))
OnTimeout ==
    /\ hpc = "await"
    /\ socket = "connecting"
    /\ socket' = "destroyed"
    /\ outcome' = HandleFailure("timeout")
    /\ hpc' = "done"
    /\ UNCHANGED <<payload, timeoutMs, pageVars, dataVars, lookupVars, connectVars>>

\* socket.on("error", handleFailure("connect-error"))
OnError ==
    /\ hpc = "await"
    /\ socket = "connecting"
    /\ socket' = "destroyed"
    /\ outcome' = HandleFailure("connect-error")
    /\ hpc' = "done"
    /\ UNCHANGED <<payload, timeoutMs, pageVars, dataVars, lookupVars, connectVars>>

-----------------------------------------------------------------------------
(* Pool data client: api/client.ts, usePoolsData and the blocks/payments   *)
(* load of the pool page. A reply body is null, a string, an array of items *)
(* or an object with the fields the loaders look at.                        *)

Arr(items) == <<"arr", items>>
Obj(fields) == <<"obj", fields>>
NoFields == [result |-> Undef, blocks |-> Undef, payments |-> Undef, pools |-> Undef]
NoReply == <<"none">>
FailedReply == <<"failed">>

\* Array.isArray(v)
IsArray(v) == Tag(v) = "arr"
\* v?.field
Prop(v, field) == IF Tag(v) = "obj" THEN v[2][field] ELSE Undef
\* items.slice(0, n)
Slice(items, n) == SubSeq(items, 1, IF Len(items) < n THEN Len(items) ELSE n)

BLOCK_PAGE_SIZE == 10
PAYMENT_PAGE_SIZE == 10

\* mutant: fetchPools unwraps the pools array
FetchPoolsUnwrapping(data) ==
    IF IsArray(Prop(data, "pools")) THEN Prop(data, "pools") ELSE data

\* the fetch functions return response.data as received
FetchPools(data) == data
FetchBlocks(data) == data
FetchPayments(data) == data

\* mutant: a bare array is not recognised
PoolListWithoutBareArray(response) ==
    IF IsArray(Prop(response, "pools")) THEN Prop(response, "pools")[2] ELSE <<>>

\* poolList of usePoolsData.load
PoolList(response) ==
    IF IsArray(Prop(response, "pools")) THEN Prop(response, "pools")[2]
    ELSE IF IsArray(response) THEN response[2]
    ELSE <<>>

\* result of the blocks half of load
BlockList(blocksResponse) ==
    IF IsArray(Prop(blocksResponse, "result")) THEN Prop(blocksResponse, "result")[2]
    ELSE IF IsArray(Prop(blocksResponse, "blocks")) THEN Prop(blocksResponse, "blocks")[2]
    ELSE IF IsArray(blocksResponse) THEN blocksResponse[2]
    ELSE <<>>

\* result of the payments half of load
PaymentList(paymentsResponse) ==
    IF IsArray(Prop(paymentsResponse, "payments")) THEN Prop(paymentsResponse, "payments")[2]
    ELSE IF IsArray(paymentsResponse) THEN paymentsResponse[2]
    ELSE <<>>

MaxPending == 2
MaxClock == 3

OneItem == <<7>>
TwoItems == <<2, 1>>
ManyItems == [i \in 1 .. (BLOCK_PAGE_SIZE + 1) |-> i]

DataBodies ==
    { Null, JStr("oops"), Arr(<<>>), Arr(TwoItems), Arr(ManyItems),
      Obj(NoFields),
      Obj([NoFields EXCEPT !.result = Arr(OneItem)]),
      Obj([NoFields EXCEPT !.result = Arr(ManyItems)]),
      Obj([NoFields EXCEPT !.blocks = Arr(TwoItems)]),
      Obj([NoFields EXCEPT !.payments = Arr(TwoItems)]),
      Obj([NoFields EXCEPT !.pools = Arr(TwoItems)]),
      Obj([NoFields EXCEPT !.pools = Arr(<<>>)]),
      Obj([NoFields EXCEPT !.pools = JStr("oops")]),
      Obj([result |-> Arr(OneItem), blocks |-> Arr(TwoItems),
           payments |-> Arr(TwoItems), pools |-> Undef]) }

PoolsLoadFailed == "Unable to load pool data."
BlocksUnavailable == "Blocks endpoint unavailable for this pool."
PaymentsUnavailable == "Payments endpoint unavailable for this pool."

\* after mount: the first load of each loader is waiting for its reply
DataInit ==
    /\ pools = <<>>
    /\ loading = TRUE
    /\ error = Null
    /\ lastUpdated = Null
    /\ blocks = <<>>
    /\ payments = <<>>
    /\ blocksError = Null
    /\ paymentsError = Null
    /\ poolsReq = 1
    /\ blocksReq = 1
    /\ paymentsReq = 0
    /\ clock = 0
    /\ poolsData = NoReply
    /\ poolsResponse = NoReply
    /\ blocksData = NoReply
    /\ paymentsData = NoReply
    /\ active = TRUE

poolsVars == <<pools, loading, error, lastUpdated, poolsReq, clock, poolsData,
               poolsResponse>>
detailVars == <<blocks, payments, blocksError, paymentsError, blocksReq,
                paymentsReq, blocksData, paymentsData>>

\* load() up to its await: the interval timer or refresh() calls it
LoadStart ==
    /\ active
    /\ poolsReq < MaxPending
    /\ loading' = TRUE
    /\ poolsReq' = poolsReq + 1
    /\ clock' = IF clock < MaxClock THEN clock + 1 ELSE clock
    /\ UNCHANGED <<pools, error, lastUpdated, poolsData, poolsResponse, active,
                   detailVars, pageVars, probeVars, lookupVars, connectVars>>

\* load() after fetchPools() resolved
LoadResolved(data) ==
    /\ poolsReq > 0
    /\ poolsReq' = poolsReq - 1
    /\ poolsData' = data
    /\ poolsResponse' = FetchPools(data)
    /\ pools' = PoolList(FetchPools(data))
    /\ error' = Null
    /\ lastUpdated' = Val(clock)
    /\ loading' = FALSE
    /\ UNCHANGED <<clock, active, detailVars, pageVars, probeVars, lookupVars, connectVars>>

\* mutant: a failed pools poll blanks the list, as the sections of the pool page do
LoadRejectedBlankingList ==
    /\ poolsReq > 0
    /\ poolsReq' = poolsReq - 1
    /\ poolsData' = FailedReply
    /\ poolsResponse' = FailedReply
    /\ pools' = <<>>
    /\ error' = Val(PoolsLoadFailed)
    /\ loading' = FALSE
    /\ UNCHANGED <<lastUpdated, clock, active, detailVars, pageVars, probeVars, lookupVars, connectVars>>

\* load() after fetchPools() rethrew the transport error
LoadRejected ==
    /\ poolsReq > 0
    /\ poolsReq' = poolsReq - 1
    /\ poolsData' = FailedReply
    /\ poolsResponse' = FailedReply
    /\ error' = Val(PoolsLoadFailed)
    /\ loading' = FALSE
    /\ UNCHANGED <<pools, lastUpdated, clock, active, detailVars, pageVars, probeVars, lookupVars, connectVars>>

\* the 30 s interval of the pool page calls load, whether or not an earlier
\* call is still waiting
DetailLoadStart ==
    /\ active
    /\ blocksReq + paymentsReq < MaxPending
    /\ blocksReq' = blocksReq + 1
    /\ UNCHANGED <<blocks, payments, blocksError, paymentsError, paymentsReq,
                   blocksData, paymentsData, active, poolsVars, pageVars, probeVars,
                   lookupVars, connectVars>>

\* mutant: a blocks reply leaves the advisory of an earlier failure in place
BlocksResolvedKeepingError(data) ==
    /\ blocksReq > 0
    /\ blocksReq' = blocksReq - 1
    /\ IF active
       THEN /\ blocksData' = data
            /\ blocks' = Slice(BlockList(FetchBlocks(data)), BLOCK_PAGE_SIZE)
            /\ paymentsReq' = paymentsReq + 1
       ELSE UNCHANGED <<blocksData, blocks, paymentsReq>>
    /\ UNCHANGED <<blocksError, payments, paymentsError, paymentsData, active, poolsVars,
                   pageVars, probeVars, lookupVars, connectVars>>

\* fetchBlocks resolved; `if (!active) return` leaves the whole load
BlocksResolved(data) ==
    /\ blocksReq > 0
    /\ blocksReq' = blocksReq - 1
    /\ IF active
       THEN /\ blocksData' = data
            /\ blocks' = Slice(BlockList(FetchBlocks(data)), BLOCK_PAGE_SIZE)
            /\ blocksError' = Null
            /\ paymentsReq' = paymentsReq + 1
       ELSE UNCHANGED <<blocksData, blocks, blocksError, paymentsReq>>
    /\ UNCHANGED <<payments, paymentsError, paymentsData, active, poolsVars,
                   pageVars, probeVars, lookupVars, connectVars>>

\* mutant: a failed blocks request ends the load and blanks the payments
BlocksRejectedEndingLoad ==
    /\ blocksReq > 0
    /\ blocksReq' = blocksReq - 1
    /\ blocksData' = FailedReply
    /\ blocks' = <<>>
    /\ blocksError' = Val(BlocksUnavailable)
    /\ payments' = <<>>
    /\ UNCHANGED <<paymentsError, paymentsReq, paymentsData, active, poolsVars,
                   pageVars, probeVars, lookupVars, connectVars>>

\* fetchBlocks rejected; the load goes on to the payments whether active or not
BlocksRejected ==
    /\ blocksReq > 0
    /\ blocksReq' = blocksReq - 1
    /\ paymentsReq' = paymentsReq + 1
    /\ IF active
       THEN /\ blocksData' = FailedReply
            /\ blocks' = <<>>
            /\ blocksError' = Val(BlocksUnavailable)
       ELSE UNCHANGED <<blocksData, blocks, blocksError>>
    /\ UNCHANGED <<payments, paymentsError, paymentsData, active, poolsVars,
                   pageVars, probeVars, lookupVars, connectVars>>

PaymentsResolved(data) ==
    /\ paymentsReq > 0
    /\ paymentsReq' = paymentsReq - 1
    /\ IF active
       THEN /\ paymentsData' = data
            /\ payments' = Slice(PaymentList(FetchPayments(data)), PAYMENT_PAGE_SIZE)
            /\ paymentsError' = Null
       ELSE UNCHANGED <<paymentsData, payments, paymentsError>>
    /\ UNCHANGED <<blocks, blocksError, blocksData, blocksReq, active, poolsVars,
                   pageVars, probeVars, lookupVars, connectVars>>

PaymentsRejected ==
    /\ paymentsReq > 0
    /\ paymentsReq' = paymentsReq - 1
    /\ IF active
       THEN /\ paymentsData' = FailedReply
            /\ payments' = <<>>
            /\ paymentsError' = Val(PaymentsUnavailable)
       ELSE UNCHANGED <<paymentsData, payments, paymentsError>>
    /\ UNCHANGED <<blocks, blocksError, blocksData, blocksReq, active, poolsVars,
                   pageVars, probeVars, lookupVars, connectVars>>

\* the cleanup of the polling effects: the view is navigated away from, the
\* interval timers are cleared
Unmount ==
    /\ active
    /\ active' = FALSE
    /\ UNCHANGED <<poolsVars, detailVars, pageVars, probeVars, lookupVars, connectVars>>

-----------------------------------------------------------------------------
(* Miner lookup: MinerLookupPanel (performLookup) and the lookup form of the *)
(* navigation (handleMinerLookup), both over fetchMinerStats.                *)

\* !!v for the values a reply body can be
Truthy(v) == v \notin {Null, Undef, JStr(<<>>), JNum(0), NaN}

\* fetchMinerStats returns response.data as received
FetchMinerStats(data) == data

MinerOf(address) == Obj([miner |-> address, pendingBalance |-> 0])
WalletA == <<"a", "b", "c">>
WalletB == <<"x", "y">>
\* what the miner endpoint replies: a statistics object, JSON null, or an empty
\* body (which the HTTP client hands over as the empty string)
MinerReplies == { MinerOf(WalletA), MinerOf(WalletB), Null, JStr(<<>>) }
Wallets == { <<>>, <<" ">>, <<" ">> \o WalletA, WalletB }
PoolIds == { <<>>, <<"b", "t", "c">> }

EnterAddressAndPool == "Enter a miner address and pick a pool."
NotFoundInPool == "Miner not found in the selected pool."
UnableToRetrieve == "Unable to retrieve miner statistics from Miningcore."
EnterAddress == "Enter a miner address to view stats."
MinerNotFound == "Miner not found."
UnableToFetch == "Unable to fetch miner stats from Miningcore API."

LookupInit ==
    /\ result = Null
    /\ lookupError = Null
    /\ submitting = FALSE
    /\ minerStats = Null
    /\ minerError = Null
    /\ minerLoading = FALSE
    /\ lookupReply = NoReply
    /\ minerReply = NoReply

\* mutant: an empty reply sets no message
LookupErrorKept(response, err) == err

\* if (!response) setError('Miner not found in the selected pool.')
LookupErrorAfter(response, err) ==
    IF ~Truthy(response) THEN Val(NotFoundInPool) ELSE err

\* handleSubmit / performLookup up to the await; the button is disabled while
\* a lookup is submitting
PanelSubmit(poolId, wallet) ==
    /\ ~submitting
    /\ lookupReply' = NoReply
    /\ IF Trim(wallet) = <<>> \/ poolId = <<>>
       THEN /\ lookupError' = Val(EnterAddressAndPool)
            /\ UNCHANGED <<result, submitting>>
       ELSE /\ submitting' = TRUE
            /\ lookupError' = Null
            /\ result' = Null
    /\ UNCHANGED <<minerStats, minerError, minerLoading, minerReply,
                   pageVars, probeVars, dataVars, connectVars>>

\* performLookup after fetchMinerStats resolved
PanelResolved(data) ==
    /\ submitting
    /\ lookupReply' = data
    /\ lookupError' = LookupErrorAfter(FetchMinerStats(data), lookupError)
    /\ result' = Coalesce(FetchMinerStats(data), Null)
    /\ submitting' = FALSE
    /\ UNCHANGED <<minerStats, minerError, minerLoading, minerReply,
                   pageVars, probeVars, dataVars, connectVars>>

\* performLookup after fetchMinerStats rethrew the transport error
PanelRejected ==
    /\ submitting
    /\ lookupReply' = FailedReply
    /\ lookupError' = Val(UnableToRetrieve)
    /\ submitting' = FALSE
    /\ UNCHANGED <<result, minerStats, minerError, minerLoading, minerReply,
                   pageVars, probeVars, dataVars, connectVars>>

\* handleMinerLookup up to the await
NavSubmit(poolId, wallet) ==
    /\ ~minerLoading
    /\ minerReply' = NoReply
    /\ IF poolId = <<>> \/ Len(Trim(wallet)) = 0
       THEN /\ minerStats' = Null
            /\ minerError' = Val(EnterAddress)
            /\ UNCHANGED minerLoading
       ELSE /\ minerLoading' = TRUE
            /\ minerError' = Null
            /\ UNCHANGED minerStats
    /\ UNCHANGED <<result, lookupError, submitting, lookupReply,
                   pageVars, probeVars, dataVars, connectVars>>

NavResolved(data) ==
    /\ minerLoading
    /\ minerReply' = data
    /\ minerStats' = FetchMinerStats(data)
    /\ minerError' = IF ~Truthy(FetchMinerStats(data)) THEN Val(MinerNotFound)
                     ELSE minerError
    /\ minerLoading' = FALSE
    /\ UNCHANGED <<result, lookupError, submitting, lookupReply,
                   pageVars, probeVars, dataVars, connectVars>>

NavRejected ==
    /\ minerLoading
    /\ minerReply' = FailedReply
    /\ minerStats' = Null
    /\ minerError' = Val(UnableToFetch)
    /\ minerLoading' = FALSE
    /\ UNCHANGED <<result, lookupError, submitting, lookupReply,
                   pageVars, probeVars, dataVars, connectVars>>

LookupNext ==
    \/ \E poolId \in PoolIds : \E wallet \in Wallets : PanelSubmit(poolId, wallet)
    \/ \E data \in MinerReplies : PanelResolved(data)
    \/ PanelRejected
    \/ \E poolId \in PoolIds : \E wallet \in Wallets : NavSubmit(poolId, wallet)
    \/ \E data \in MinerReplies : NavResolved(data)
    \/ NavRejected

-----------------------------------------------------------------------------
(* Specifications.                                                          *)

\* the probe results the page is explored with: every measured latency and one
\* failure reported by the handler
ProbeAnswers(row) ==
    { res \in FetchResults(row) :
        res.kind # "failed" /\ res.body.error \in {Undef, Val("timeout")} }

-----------------------------------------------------------------------------
(* Connect page and stratum latency panel: state machine.                   *)

ConnectPool(id, portSet) == [id |-> id, ports |-> portSet]

\* the pool lists a poll of the Connect page can commit, in the order served
ConnectPoolLists ==
    { <<>>,
      <<ConnectPool("btc", {3333})>>,
      <<ConnectPool("btc", {3333, 3355})>>,
      <<ConnectPool("ltc", {3333}), ConnectPool("btc", {3333})>> }

\* the ?pool= values the page is opened with: none, a listed pool, an unknown one
Requests == { Undef, Val("ltc"), Val("xmr") }

\* nameA < nameB for the lower-cased names of the pools used
NameBefore(a, b) == a = "btc" /\ b = "ltc"

\* [...pools].sort(by lower-cased coin symbol, else id)
RECURSIVE SortPools(_)
SortPools(list) ==
    IF list = <<>> THEN <<>>
    ELSE LET i == CHOOSE k \in DOMAIN list :
                    /\ \A j \in DOMAIN list : ~NameBefore(list[j].id, list[k].id)
                    /\ \A j \in 1..(k - 1) : NameBefore(list[k].id, list[j].id)
         IN <<list[i]>> \o
            SortPools(SubSeq(list, 1, i - 1) \o SubSeq(list, i + 1, Len(list)))

PoolIdsOf(list) == { list[i].id : i \in DOMAIN list }

\* the updater of the active pool effect, for a non-empty ordered list
ActivePoolUpdate(ordered, req, prev) ==
    IF IsVal(req) /\ Get(req) \in PoolIdsOf(ordered) THEN req
    ELSE IF IsVal(prev) /\ Get(prev) \in PoolIdsOf(ordered) THEN prev
    ELSE Val(ordered[1].id)

\* activePoolId once the active pool effect has run over the list
ActivePoolEffect(list, req, prev) ==
    IF list = <<>> THEN prev ELSE ActivePoolUpdate(SortPools(list), req, prev)

StratumLocation(poolId, port) ==
    [id |-> poolId \o "-" \o ToString(port), host |-> StratumHost, port |-> port]

LocationsOfPool(pool) ==
    [i \in DOMAIN SortedSeq(pool.ports) |-> StratumLocation(pool.id, SortedSeq(pool.ports)[i])]

\* latencyLocations of the Connect page: the ports of the active pool
LatencyLocations(list, apid) ==
    LET activePool == IF IsVal(apid)
                      THEN Find(SortPools(list), LAMBDA pool : pool.id = Get(apid))
                      ELSE Undef
    IN IF IsVal(activePool) THEN LocationsOfPool(Get(activePool)) ELSE <<>>

RECURSIVE GeneratedLocations(_)
GeneratedLocations(list) ==
    IF list = <<>> THEN <<>>
    ELSE SelectSeq(LocationsOfPool(Head(list)), LAMBDA loc : loc.port # 0)
            \o GeneratedLocations(Tail(list))

FallbackLocation == [id |-> "default-5108", host |-> StratumHost, port |-> 5108]

\* derivedLocations of the panel: the locations handed in, else up to six
\* generated from the pools, else the fallback
DerivedLocations(list, apid) ==
    LET given == LatencyLocations(list, apid)
        generated == GeneratedLocations(list)
    IN IF given # <<>> THEN given
       ELSE IF generated = <<>> THEN <<FallbackLocation>>
       ELSE SubSeq(generated, 1, IF Len(generated) < 6 THEN Len(generated) ELSE 6)

LocationIds ==
    UNION { RowIdsOf(DerivedLocations(list, apid)) :
              list \in ConnectPoolLists, apid \in {Null, Val("btc"), Val("ltc")} }

LocationOfId(id) ==
    CHOOSE loc \in UNION { Range(DerivedLocations(list, apid)) :
                             list \in ConnectPoolLists,
                             apid \in {Null, Val("btc"), Val("ltc")} } : loc.id = id

DEFAULT_LATENCY == [latency |-> Null, status |-> "idle", error |-> Undef]

\* the updater of the panel's sync effect
SyncLatencyMap(locations, prev) ==
    [id \in RowIdsOf(locations) |-> IF id \in DOMAIN prev THEN prev[id] ELSE DEFAULT_LATENCY]

Listed == DerivedLocations(connectPools, activePoolId)

\* latencyMap[location.id] ?? DEFAULT_LATENCY
EntryOf(lm, id) == IF id \in DOMAIN lm THEN lm[id] ELSE DEFAULT_LATENCY

Milliseconds(latency) == ToString(latency) \o " ms"

\* the label of the panel's badge for an entry
latencyToBadge(entry) ==
    IF entry.status = "testing" THEN "testing"
    ELSE IF entry.status = "error" \/ entry.latency = Null THEN "unreachable"
    ELSE Milliseconds(Get(entry.latency))

\* the class of the panel's dot for an entry
latencyDotClass(entry) ==
    IF entry.status = "testing" THEN "bg-amber-400"
    ELSE IF entry.status = "error" \/ entry.latency = Null THEN "bg-rose-500"
    ELSE IF Get(entry.latency) <= 120 THEN "bg-emerald-400"
    ELSE IF Get(entry.latency) <= 220 THEN "bg-amber-400"
    ELSE "bg-rose-500"

\* the label the pool detail page shows for a row
latencyStatusFor(lm, row) ==
    IF row.id \notin DOMAIN lm \/ lm[row.id].status = "idle" THEN "none"
    ELSE IF lm[row.id].status = "testing" THEN "testing"
    ELSE IF lm[row.id].status = "error" \/ lm[row.id].latency = Null THEN "unreachable"
    ELSE Milliseconds(Get(lm[row.id].latency))

\* the first render: no pools yet, the panel lists the fallback location
ConnectInit ==
    /\ connectPools = <<>>
    /\ activePoolId = Null
    /\ requested \in Requests
    /\ panelMap = SyncLatencyMap(DerivedLocations(<<>>, Null), NoSamples)
    /\ panelInflight = [id \in LocationIds |-> 0]
    /\ userPick = Null

\* a poll commits list: the render with the new list runs the sync effect and
\* the active pool effect, and the render with the new active pool runs the
\* sync effect again
ConnectRefresh(list) ==
    /\ connectPools' = list
    /\ activePoolId' = ActivePoolEffect(list, requested, activePoolId)
    /\ panelMap' = SyncLatencyMap(DerivedLocations(list, activePoolId'),
                      SyncLatencyMap(DerivedLocations(list, activePoolId), panelMap))
    /\ userPick' = IF IsVal(userPick) /\ Get(userPick) \in PoolIdsOf(list)
                   THEN userPick ELSE Null
    /\ UNCHANGED <<requested, panelInflight, pageVars, probeVars, dataVars, lookupVars>>

\* a click on the button of a listed pool
PickPool(id) ==
    /\ id \in PoolIdsOf(connectPools)
    /\ activePoolId' = Val(id)
    /\ userPick' = Val(id)
    /\ panelMap' = IF activePoolId = Val(id) THEN panelMap
                   ELSE SyncLatencyMap(DerivedLocations(connectPools, Val(id)), panelMap)
    /\ UNCHANGED <<connectPools, requested, panelInflight, pageVars, probeVars,
                   dataVars, lookupVars>>

RECURSIVE PanelInFlightOver(_)
PanelInFlightOver(ids) ==
    IF ids = {} THEN 0
    ELSE LET id == CHOOSE x \in ids : TRUE
         IN panelInflight[id] + PanelInFlightOver(ids \ {id})

\* a click on "Test latency" of a listed location, up to the await
PanelTest(id) ==
    /\ id \in RowIdsOf(Listed)
    /\ (IF id \in DOMAIN panelMap THEN panelMap[id] ELSE DEFAULT_LATENCY).status # "testing"
    /\ PanelInFlightOver(LocationIds) < MaxInFlight
    /\ panelMap' = Put(panelMap, id, Testing)
    /\ panelInflight' = [panelInflight EXCEPT ![id] = @ + 1]
    /\ UNCHANGED <<connectPools, activePoolId, requested, userPick, pageVars, probeVars,
                   dataVars, lookupVars>>

\* the request of a panel testLatency(location) call settles
PanelComplete(id, res) ==
    /\ panelInflight[id] > 0
    /\ res \in FetchResults(LocationOfId(id))
    /\ panelMap' = Put(panelMap, id, SampleOf(res))
    /\ panelInflight' = [panelInflight EXCEPT ![id] = @ - 1]
    /\ UNCHANGED <<connectPools, activePoolId, requested, userPick, pageVars, probeVars,
                   dataVars, lookupVars>>

ConnectNext ==
    \/ \E list \in ConnectPoolLists : ConnectRefresh(list)
    \/ \E id \in {"btc", "ltc"} : PickPool(id)
    \/ \E id \in LocationIds : PanelTest(id)
    \/ \E id \in LocationIds : \E res \in ProbeAnswers(LocationOfId(id)) :
          PanelComplete(id, res)

\* the outcomes of an endpoint's probes are not fixed
NetworkInit == network = [id \in {} |-> "connect"]

\* the Connect page is not open
ConnectClosed ==
    /\ connectPools = <<>>
    /\ activePoolId = Null
    /\ requested = Undef
    /\ panelMap = NoSamples
    /\ panelInflight = [id \in LocationIds |-> 0]
    /\ userPick = Null

Init == PageInit /\ NetworkInit /\ ProbeInit /\ DataInit /\ LookupInit /\ ConnectClosed
PickInit ==
    PickPageInit /\ NetworkInit /\ ProbeInit /\ DataInit /\ LookupInit /\ ConnectClosed
ConnectPageInit ==
    PageInit /\ NetworkInit /\ ProbeInit /\ DataInit /\ LookupInit /\ ConnectInit

\* what the network can do to every probe of an endpoint: the connection is
\* made, it times out, or the request to the route itself fails
NetworkOutcomes == {"connect", "timeout", "network-error"}

\* the network outcome a result of the request comes from ("any" for a
\* response the route gives without connecting)
NetworkOf(res) ==
    IF res.kind = "failed" THEN "network-error"
    ELSE IF res.status # 200 THEN "any"
    ELSE IF res.body.error = Undef THEN "connect"
    ELSE Get(res.body.error)

PolledIds == UNION { RowIdsOf(connectionRows[pm]) : pm \in PortMaps }

\* the page on a network whose outcome is fixed for every endpoint
FixedInit ==
    /\ PageInit
    /\ network \in [PolledIds -> NetworkOutcomes]
    /\ ProbeInit /\ DataInit /\ LookupInit /\ ConnectClosed

\* a probe settles as the network of its endpoint has it
FixedProbeComplete(id, res, isLatest) ==
    /\ id \in DOMAIN network
    /\ NetworkOf(res) \in {network[id], "any"}
    /\ ProbeComplete(id, res, isLatest)

RECURSIVE InFlightOver(_)
InFlightOver(ids) ==
    IF ids = {} THEN 0
    ELSE LET id == CHOOSE x \in ids : TRUE
         IN inflight[id] + InFlightOver(ids \ {id})

\* fewer than limit probes are in flight, over all endpoints
MayRetest(limit) == InFlightOver(RowIds) < limit

\* a click on "Retest latency"
PageRetest == MayRetest(MaxInFlight) /\ RemeasureAll
OverlappingRetest == MayRetest(MaxOverlap) /\ RemeasureAll

PageNext ==
    \/ \E pm \in PortMaps : Refresh(pm)
    \/ \E id \in RowIds : \E res \in ProbeAnswers(RowOfId(id)) :
          \E isLatest \in BOOLEAN : ProbeComplete(id, res, isLatest)
    \/ PageRetest
    \/ \E g \in {StratumHost} : SelectGroup(g)
    \/ \E id \in RowIds : SelectEndpoint(id)

ProbeNext ==
    \/ \E p \in Payloads : Receive(p)
    \/ CreateConnection
    \/ \E l \in Latencies : OnConnect(l)
    \/ OnTimeout
    \/ OnError

PickNext == PickDefault \/ PickBest

\* polls, probes and retests, without selections by hand
RetestNext ==
    \/ \E pm \in PortMaps : Refresh(pm)
    \/ \E id \in RowIds : \E res \in ProbeAnswers(RowOfId(id)) :
          \E isLatest \in BOOLEAN : ProbeComplete(id, res, isLatest)
    \/ OverlappingRetest

\* polls over every port map, each probe settling with whatever the request
\* can yield
SamplesNext ==
    \/ \E pm \in KnownPortMaps : Refresh(pm)
    \/ \E id \in RowIds : \E res \in FetchResults(RowOfId(id)) :
          \E isLatest \in BOOLEAN : ProbeComplete(id, res, isLatest)
    \/ PageRetest

\* polls, probes and retests on a network of fixed outcomes
FixedNext ==
    \/ \E pm \in PortMaps : Refresh(pm)
    \/ \E id \in RowIds : \E res \in FetchResults(RowOfId(id)) :
          \E isLatest \in BOOLEAN : FixedProbeComplete(id, res, isLatest)
    \/ PageRetest

\* a request of testLatency for endpoint id settles
ProbeSettles(id) ==
    \E res \in ProbeAnswers(RowOfId(id)) : \E isLatest \in BOOLEAN :
        ProbeComplete(id, res, isLatest)

\* what a settling request of endpoint id does to the requests in flight: it
\* is one of them, and it alone leaves
ProbeSettled(id) ==
    /\ inflight[id] > 0
    /\ inflight' = [inflight EXCEPT ![id] = @ - 1]

\* every HTTP request to the probe endpoint eventually resolves or rejects
ProbeFairness == \A id \in RowIds : WF_inflight(ProbeSettled(id))

PoolsNext ==
    \/ LoadStart
    \/ \E data \in DataBodies : LoadResolved(data)
    \/ LoadRejected
    \/ Unmount

DetailNext ==
    \/ DetailLoadStart
    \/ \E data \in DataBodies : BlocksResolved(data)
    \/ BlocksRejected
    \/ \E data \in DataBodies : PaymentsResolved(data)
    \/ PaymentsRejected
    \/ Unmount

\* the replies the pools poll and the blocks/payments load are explored with
\* together: an array, an object holding the arrays, and a body without any
SectionBodies ==
    { Arr(TwoItems), JStr("oops"),
      Obj([result |-> Arr(OneItem), blocks |-> Arr(TwoItems),
           payments |-> Arr(TwoItems), pools |-> Arr(TwoItems)]) }

DataNext ==
    \/ LoadStart
    \/ \E data \in SectionBodies : LoadResolved(data)
    \/ LoadRejected
    \/ DetailLoadStart
    \/ \E data \in SectionBodies : BlocksResolved(data)
    \/ BlocksRejected
    \/ \E data \in SectionBodies : PaymentsResolved(data)
    \/ PaymentsRejected
    \/ Unmount

\* a request settles, one way or the other
PoolsSettle == (\E data \in SectionBodies : LoadResolved(data)) \/ LoadRejected
BlocksSettle == (\E data \in SectionBodies : BlocksResolved(data)) \/ BlocksRejected
PaymentsSettle == (\E data \in SectionBodies : PaymentsResolved(data)) \/ PaymentsRejected

\* the polling of a view that stays mounted
PollingNext ==
    \/ LoadStart
    \/ PoolsSettle
    \/ DetailLoadStart
    \/ BlocksSettle
    \/ PaymentsSettle

\* the interval timers keep firing and every request settles
PollingFairness ==
    /\ WF_vars(LoadStart)
    /\ WF_vars(DetailLoadStart)
    /\ WF_vars(PoolsSettle)
    /\ WF_vars(BlocksSettle)
    /\ WF_vars(PaymentsSettle)

SpecPick == PickInit /\ [][PickNext]_vars
SpecPage == Init /\ [][PageNext]_vars
SpecRetest == Init /\ [][RetestNext]_vars
SpecFixed == FixedInit /\ [][FixedNext]_vars
SpecConnect == ConnectPageInit /\ [][ConnectNext]_vars
SpecProbing == Init /\ [][RetestNext]_vars /\ ProbeFairness
SpecSamples == Init /\ [][SamplesNext]_vars
SpecPools == Init /\ [][PoolsNext]_vars
SpecDetail == Init /\ [][DetailNext]_vars
SpecData == Init /\ [][DataNext]_vars
SpecLookup == Init /\ [][LookupNext]_vars
SpecPolling == Init /\ [][PollingNext]_vars /\ PollingFairness
SpecProbe == Init /\ [][ProbeNext]_vars

-----------------------------------------------------------------------------
(* Claims about the endpoint selection.                                     *)

HasMidMarker(row) ==
    /\ IsVal(row.profileName)
    /\ \/ Includes(ToLowerCase(Get(row.profileName)), <<"m","i","d">>)
       \/ Includes(ToLowerCase(Get(row.profileName)), <<"m","e","d","i","u","m">>)

ExamplePortsC1 == 3333 :> Plain @@ 3355 :> Cfg(Val(NameMid), Undef, Undef) @@ 3377 :> Plain

\* C1: whenever some port-config name contains "mid" or "medium"
\* (case-insensitive), the default endpoint is an endpoint with such a name;
\* for {3333: {}, 3355: {name: "Mid"}, 3377: {}} it is port 3355.
C1_DefaultPrefersMidMarker ==
    IsVal(picked) =>
        LET rows == ConnectionRows(ports)
            row == Get(picked).row
        IN /\ (\E i \in DOMAIN rows : HasMidMarker(rows[i]))
                => IsVal(row) /\ HasMidMarker(Get(row))
           /\ ports = ExamplePortsC1 => IsVal(row) /\ Get(row).port = 3355

BestId == IdOrNull(BestLatencyRow(Rows, latencyMap))
DefaultId == IdOrNull(defaultEndpointRow[ports])

\* C2 as stated: without a manual endpoint selection the selected endpoint is
\* the best-latency endpoint when some endpoint has a success sample, else the
\* default endpoint, else the first endpoint.
C2_BestLatencyFirst ==
    ~manualEndpoint =>
        selectedEndpointId =
            Coalesce(BestId, Coalesce(DefaultId, IdOrNull(FirstOrNull(Rows))))

\* C2 as amended: without a manual endpoint selection the selected endpoint is
\* the default endpoint of the current port map, whatever the latency samples.
C2_DefaultEndpointSelected ==
    ~manualEndpoint => selectedEndpointId = DefaultId

\* an automatic selection that differs from the best-latency endpoint
C2_Witness ==
    /\ ~manualEndpoint
    /\ IsVal(BestId)
    /\ BestId # DefaultId
    /\ selectedEndpointId = DefaultId

RefreshStep == \E pm \in PortMaps : Refresh(pm)
ProbeCompleteStep ==
    \E id \in RowIds : \E res \in FetchResults(RowOfId(id)) :
        \E isLatest \in BOOLEAN : ProbeComplete(id, res, isLatest)

\* C3: once an endpoint is selected manually, a pool-data refresh that still
\* lists it, and the completion of any latency probe, leave it selected (and
\* the selection manual).
C3_ManualSelectionSticky ==
    [][ ( /\ manualEndpoint
          /\ IsVal(selectedEndpointId)
          /\ RefreshStep \/ ProbeCompleteStep
          /\ Get(selectedEndpointId) \in RowIdsOf(connectionRows[ports']) )
        => /\ selectedEndpointId' = selectedEndpointId
           /\ manualEndpoint' ]_vars

\* a manual selection that is neither the default nor the best-latency
\* endpoint, with probes of the listed endpoints completed
C3_Witness ==
    /\ manualEndpoint
    /\ IsVal(BestId)
    /\ selectedEndpointId # BestId
    /\ selectedEndpointId # DefaultId
    /\ \A id \in RowIdsOf(Rows) : inflight[id] = 0

AutoEndpointId(pm, lm) ==
    IdOrNull(PickEndpointForGroup(FallbackGroup(pm, lm), pm, lm))

\* C4 as stated: after a refresh removed the manually selected endpoint, the
\* selection does not return to it without a user action, even if a later
\* refresh lists it again.
C4_NeverBackToDropped ==
    IsVal(dropped) => selectedEndpointId # dropped

\* C4 as amended: from the refresh that removed the manually selected endpoint
\* on, and until the user selects an endpoint again, the manual flag is clear
\* and the selected endpoint is the automatically computed one (which is the
\* old endpoint again when the automatic computation picks it).
C4_DroppedRevertsToAutomatic ==
    IsVal(dropped) =>
        /\ ~manualEndpoint
        /\ selectedEndpointId = AutoEndpointId(ports, latencyMap)
        /\ IdOrNull(EffectiveSelectedEndpoint(ports, latencyMap, selectedGroupId,
                                              selectedEndpointId))
             = AutoEndpointId(ports, latencyMap)

\* the removed endpoint is absent and another endpoint is selected
C4_Witness ==
    /\ IsVal(dropped)
    /\ Get(dropped) \notin RowIdsOf(Rows)
    /\ IsVal(selectedEndpointId)
    /\ Get(selectedEndpointId) \in RowIdsOf(Rows)

\* the endpoint the page picks automatically within group g
AutoEndpointWithin(g) ==
    IdOrNull(PickEndpointForGroup(SelectedGroup(ports, Val(g)), ports, latencyMap))

C14_AutoProbeOnceAndRetestAll ==
    /\ [][ RefreshStep =>
             \A id \in RowIds :
                 inflight'[id] = inflight[id] +
                     (IF id \in RowIdsOf(connectionRows[ports']) /\ id \notin measured
                      THEN 1 ELSE 0) ]_vars
    /\ [][ RemeasureAll =>
             \A id \in RowIds :
                 inflight'[id] = inflight[id] + (IF id \in RowIdsOf(Rows) THEN 1 ELSE 0) ]_vars
    /\ [][ measured \subseteq measured' ]_vars
    /\ [](RowIdsOf(Rows) \subseteq measured)

\* every endpoint id has been listed and probed, no probe is in flight: the
\* ids listed now were not probed again by the refresh that listed them again
C14_Witness ==
    /\ measured = PolledIds
    /\ \A id \in PolledIds : inflight[id] = 0
    /\ \A id \in PolledIds : latencyMap[id].status # "testing"

\* C15: overlapping probes of one endpoint do not accumulate: once none is in
\* progress for an endpoint, its sample is the outcome of the probe dispatched
\* last for it, never that of an earlier probe that settled after it.
C15_FinalSampleIsOfLatestProbe ==
    \A id \in RowIds : inflight[id] = 0 => latest[id] # "overwritten"

\* latencyMap[id]?.status ?? 'idle'
StatusAt(lm, id) == IF id \in DOMAIN lm THEN lm[id].status ELSE "idle"

SampleMoves ==
    { <<"idle", "testing">>, <<"testing", "success">>, <<"testing", "error">>,
      <<"success", "testing">>, <<"error", "testing">> }

\* C20: the sample of an endpoint only moves from idle to testing, from testing
\* to success or error, and from success or error back to testing.
C20_SampleLifecycle ==
    [][ \A id \in RowIds :
          \/ StatusAt(latencyMap', id) = "idle" /\ StatusAt(latencyMap, id) = "idle"
          \/ id \in DOMAIN latencyMap /\ id \in DOMAIN latencyMap'
               /\ latencyMap'[id] = latencyMap[id]
          \/ <<StatusAt(latencyMap, id), StatusAt(latencyMap', id)>> \in SampleMoves ]_vars

ReasonCodes == { "timeout", "connect-error", "network-error", "unreachable" }

\* C21: every stored latency sample is well formed: a success holds a numeric
\* latency, every other status holds latency null, and an error holds one of
\* the reason codes timeout, connect-error, network-error, unreachable,
\* whatever the probe endpoint answered, rejections included.
C21_SamplesWellFormed ==
    \A id \in DOMAIN latencyMap :
        LET sample == latencyMap[id]
        IN /\ sample.status = "success" =>
                IsVal(sample.latency) /\ Get(sample.latency) \in Nat
           /\ sample.status # "success" => sample.latency = Null
           /\ sample.status = "error" =>
                IsVal(sample.error) /\ Get(sample.error) \in ReasonCodes

\* the sample stored for id, absent included
SampleAt(lm, id) == IF id \in DOMAIN lm THEN lm[id] ELSE Null

\* C22: dispatching or completing a probe for an endpoint changes only the
\* sample stored under that endpoint: the sample of every endpoint for which
\* no probe was dispatched or completed in a step is left as it was, no sample
\* is removed, and a completing probe's result is stored.
C22_OnlyOwnSlotWritten ==
    /\ [][ \A k \in RowIds :
             inflight'[k] = inflight[k] =>
                 SampleAt(latencyMap', k) = SampleAt(latencyMap, k) ]_vars
    /\ [][ DOMAIN latencyMap \subseteq DOMAIN latencyMap' ]_vars
    /\ [][ \A id \in RowIds : \A res \in FetchResults(RowOfId(id)) :
             \A isLatest \in BOOLEAN :
                 ProbeComplete(id, res, isLatest) =>
                     latencyMap'[id] = SampleOf(res) ]_vars

\* two endpoints were probed at once: one has answered, the other has not, and
\* the placeholder's earlier result is still stored
C22_Witness ==
    /\ inflight[RowId(3333)] = 1
    /\ latencyMap[RowId(3333)].status = "testing"
    /\ inflight[RowId(3355)] = 0
    /\ latencyMap[RowId(3355)].status = "success"
    /\ latencyMap[DefaultRowId].status = "error"

\* the sample stored for id has the given status
HasStatus(id, statuses) == id \in DOMAIN latencyMap /\ latencyMap[id].status \in statuses

-----------------------------------------------------------------------------
(* Claims about the selection functions on their own.                       *)

PickedBy(fn) == IsVal(picked) /\ Get(picked).fn = fn
Succeeded(i) ==
    /\ ConnectionRows(ports)[i].id \in DOMAIN latencyMap
    /\ latencyMap[ConnectionRows(ports)[i].id].status = "success"
LatencyAt(i) == Get(latencyMap[ConnectionRows(ports)[i].id].latency)

\* C11: the best-latency endpoint is the endpoint with the smallest latency
\* among those with a success sample, the first of them in endpoint order on
\* a tie; it is none when no endpoint has a success sample, and never an
\* endpoint without sample or with a testing or error sample.
C11_BestIsFirstSmallestSuccess ==
    PickedBy("bestLatencyRow") =>
        LET rows == ConnectionRows(ports)
            row == Get(picked).row
        IN IF \A i \in DOMAIN rows : ~Succeeded(i)
           THEN row = Null
           ELSE \E i \in DOMAIN rows :
                    /\ row = Val(rows[i])
                    /\ Succeeded(i)
                    /\ \A j \in DOMAIN rows : Succeeded(j) => LatencyAt(i) <= LatencyAt(j)
                    /\ \A j \in 1 .. (i - 1) : Succeeded(j) => LatencyAt(j) > LatencyAt(i)

\* two endpoints tie for the smallest latency and the first of them is chosen,
\* after an endpoint that is still testing
C11_Witness ==
    /\ PickedBy("bestLatencyRow")
    /\ DOMAIN latencyMap = RowIdsOf(ConnectionRows(ports))
    /\ latencyMap[RowId(3333)].status = "testing"
    /\ latencyMap[RowId(3355)].latency = Val(40)
    /\ latencyMap[RowId(3377)].latency = Val(40)
    /\ Get(Get(picked).row).port = 3355

EffectiveDifficulty(row) ==
    IF IsVal(row.difficulty) THEN row.difficulty
    ELSE IF IsVal(row.varDiffMin) THEN row.varDiffMin
    ELSE Null
InRange(row) ==
    /\ IsVal(EffectiveDifficulty(row))
    /\ Get(EffectiveDifficulty(row)) > 0
    /\ Get(EffectiveDifficulty(row)) <= 2048
ExamplePortsC12 ==
    100 :> Cfg(Undef, Val(4096), Undef) @@ 200 :> Cfg(Undef, Val(1024), Undef)

\* C12: when no port-config name carries the mid-tier marker, the default
\* endpoint is the first endpoint whose effective difficulty (the fixed
\* difficulty, else the varDiff minimum) d has 0 < d <= 2048, and the first
\* endpoint when there is none; for {100: {difficulty: 4096},
\* 200: {difficulty: 1024}} it is port 200.
C12_DefaultByDifficulty ==
    PickedBy("defaultEndpointRow") =>
        LET rows == ConnectionRows(ports)
            row == Get(picked).row
        IN /\ (\A i \in DOMAIN rows : ~HasMidMarker(rows[i])) =>
                IF \E i \in DOMAIN rows : InRange(rows[i])
                THEN \E i \in DOMAIN rows :
                        /\ row = Val(rows[i])
                        /\ InRange(rows[i])
                        /\ \A j \in 1 .. (i - 1) : ~InRange(rows[j])
                ELSE row = Val(rows[1])
           /\ ports = ExamplePortsC12 => Get(row).port = 200

\* the default endpoint is chosen by a varDiff minimum, after an endpoint
\* whose fixed difficulty is out of range
C12_Witness ==
    /\ PickedBy("defaultEndpointRow")
    /\ ports = (100 :> Cfg(Undef, Val(4096), Val(512)) @@ 200 :> Cfg(Undef, Undef, Val(512)))
    /\ Get(Get(picked).row).port = 200

-----------------------------------------------------------------------------
(* Claims about the polling effects.                                        *)

\* C16: once the cleanup of a view's effects has run, its polled state (pools,
\* loading, error, lastUpdated) is not written again, not even by the reply
\* to a request that was in flight at that moment.
C16_NoWriteAfterUnmount ==
    [][ ~active => UNCHANGED <<pools, loading, error, lastUpdated>> ]_vars

\* no blocks/payments load is waiting for a reply
DetailIdle == blocksReq = 0 /\ paymentsReq = 0

\* C17: the data sections fail independently. A failed blocks request leaves
\* the payments, the payments advisory and the pool list alone and goes on to
\* the payments request of the same load, whose reply is committed; a failed
\* payments request changes neither the blocks nor the pool list; a failed
\* pools poll changes neither the blocks nor the payments.
C17_SectionsFailIndependently ==
    /\ [][ BlocksRejected =>
             /\ paymentsReq' = paymentsReq + 1
             /\ UNCHANGED <<payments, paymentsError, pools, error>> ]_vars
    /\ [][ PaymentsRejected => UNCHANGED <<blocks, blocksError, pools, error>> ]_vars
    /\ [][ LoadRejected =>
             UNCHANGED <<blocks, blocksError, payments, paymentsError>> ]_vars
    /\ [](active /\ DetailIdle /\ blocksData = FailedReply
            /\ paymentsData \notin {FailedReply, NoReply}
          => /\ blocksError = Val(BlocksUnavailable)
             /\ payments = Slice(PaymentList(paymentsData), PAYMENT_PAGE_SIZE)
             /\ paymentsError = Null)

\* a load whose blocks request failed has committed its payments, and a pools
\* poll has failed since the pool list was loaded
C17_Witness ==
    /\ active
    /\ DetailIdle
    /\ blocksData = FailedReply
    /\ blocksError = Val(BlocksUnavailable)
    /\ payments = TwoItems
    /\ paymentsError = Null
    /\ pools = TwoItems
    /\ error = Val(PoolsLoadFailed)

\* C23: while the view is mounted a tick issues a new poll whatever became of
\* the previous one (it may have failed, succeeded or still be waiting), so
\* polls are issued again and again; a poll that succeeds clears the error
\* advisory of its section; and if from some point on no poll of a section
\* fails, the advisory of that section is eventually absent and stays absent.
C23_PollsRetryAndHeal ==
    /\ [](poolsReq < MaxPending => ENABLED LoadStart)
    /\ [](blocksReq + paymentsReq < MaxPending => ENABLED DetailLoadStart)
    /\ []<><<LoadStart>>_vars
    /\ []<><<DetailLoadStart>>_vars
    /\ [][ (\E data \in SectionBodies : LoadResolved(data)) => error' = Null ]_vars
    /\ [][ (\E data \in SectionBodies : BlocksResolved(data)) => blocksError' = Null ]_vars
    /\ [][ (\E data \in SectionBodies : PaymentsResolved(data))
             => paymentsError' = Null ]_vars
    /\ <>[][~LoadRejected]_vars => <>[](error = Null)
    /\ <>[][~BlocksRejected]_vars => <>[](blocksError = Null)
    /\ <>[][~PaymentsRejected]_vars => <>[](paymentsError = Null)

\* a pools poll has failed and the next tick has issued a new poll while an
\* earlier blocks failure is still advised
C23_Witness ==
    /\ error = Val(PoolsLoadFailed)
    /\ loading
    /\ poolsReq > 0
    /\ blocksError = Val(BlocksUnavailable)
    /\ blocksReq > 0

-----------------------------------------------------------------------------
(* Claims about the latency route handler.                                  *)

Responded == hpc = "done" /\ outcome.kind = "response"

\* C5 as stated: in every response of the handler (successful probe, failed
\* probe, rejected request) the latency field is null exactly when an error
\* field is present.
C5_NullLatencyIffError ==
    Responded => (outcome.body.latency = Null <=> outcome.body.error # Undef)

\* C5 as amended: in every 200 response (an accepted probe) the latency field
\* is present, and null exactly when an error field is present; a 400 response
\* (a rejected request) has an error field and no latency field.
C5_NullLatencyIffErrorWhenAccepted ==
    Responded =>
        IF outcome.status = 200
        THEN /\ outcome.body.latency # Undef
             /\ outcome.body.latency = Null <=> outcome.body.error # Undef
        ELSE /\ outcome.status = 400
             /\ outcome.body.error # Undef
             /\ outcome.body.latency = Undef

\* a failed probe has answered
C5_Witness ==
    /\ Responded
    /\ outcome.status = 200
    /\ outcome.body.latency = Null
    /\ outcome.body.error = Val("timeout")

Clamp(n, lo, hi) == IF n < lo THEN lo ELSE IF n > hi THEN hi ELSE n
Requested == ToNumber(payload.timeout)

\* C6 as stated: the timeout handed to the socket is
\* clamp(requested, 500, 10000) for every requested number, 0 included.
C6_TimeoutIsClamped ==
    (timeoutMs # Undef /\ Tag(Requested) = "num") =>
        timeoutMs = JNum(Clamp(Requested[2], 500, 10000))

\* C6 as amended: the timeout handed to the socket is
\* clamp(requested, 500, 10000) for every requested number other than 0, and
\* 3000 when the requested value is 0, missing or not a number.
C6_TimeoutIsClampedOrDefault ==
    timeoutMs # Undef =>
        IF Tag(Requested) = "num" /\ Requested[2] # 0
        THEN timeoutMs = JNum(Clamp(Requested[2], 500, 10000))
        ELSE timeoutMs = JNum(3000)

\* a probe with requested timeout 0 is waiting on its socket
C6_Witness ==
    /\ hpc = "await"
    /\ payload.timeout = JNum(0)
    /\ timeoutMs = JNum(3000)

\* C7: for every body that passes validation (a non-empty host and a port
\* above 0, ports above 65535 and non-integer ports included) the handler
\* answers with a response and never raises.
C7_NeverRaises ==
    (payload.json /\ ~HostThrows(payload) /\ ~Rejected(payload))
        => outcome.kind # "thrown"

\* the body passed the validation of line 38
Accepted == payload.json /\ ~HostThrows(payload) /\ ~Rejected(payload)

ProbeOutcomes ==
    { ConnectedResponse(l) : l \in Latencies }
        \cup { HandleFailure("timeout"), HandleFailure("connect-error") }

\* C19: every accepted probe ends with exactly one outcome, that of the first
\* event (a latency on connect, connect-error, or timeout), with the socket
\* closed before the response is returned; no later event changes the outcome.
C19_OneOutcomeByFirstEvent ==
    /\ [](hpc = "done" /\ Accepted => outcome \in ProbeOutcomes /\ socket = "destroyed")
    /\ [][ hpc = "done" => outcome' = outcome ]_vars

-----------------------------------------------------------------------------
(* Claims about the pool data client.                                       *)

HasArray(data, field) == Tag(data) = "obj" /\ Tag(data[2][field]) = "arr"
FirstPage(items) == SubSeq(items, 1, IF Len(items) < 10 THEN Len(items) ELSE 10)

\* C8: the payments list committed for a reply {result: [...]} is (the first
\* page of) that array, and likewise the blocks list.
C8_ResultArrayCommitted ==
    /\ HasArray(paymentsData, "result")
            => payments = FirstPage(paymentsData[2].result[2])
    /\ HasArray(blocksData, "result")
            => blocks = FirstPage(blocksData[2].result[2])

\* C9 as stated: for every reply shaped {pools: [...]} fetchPools() returns
\* the pools array, not the enclosing object.
C9_FetchPoolsReturnsArray ==
    HasArray(poolsData, "pools") => poolsResponse = poolsData[2].pools

\* C9 as amended: fetchPools() returns the reply as received, for {pools: [...]}
\* the enclosing object; the pools array is taken out of it by
\* usePoolsData.load, which commits it as the pool list.
C9_FetchPoolsReturnsReply ==
    /\ poolsResponse = poolsData
    /\ HasArray(poolsData, "pools") => pools = poolsData[2].pools[2]

\* a {pools: [...]} reply with a non-empty array has been committed
C9_Witness ==
    /\ HasArray(poolsData, "pools")
    /\ poolsData[2].pools[2] # <<>>
    /\ pools = poolsData[2].pools[2]

Replied(data) == data # NoReply /\ data # FailedReply

\* C10: after a reply arrived the committed pool list is the `pools` array of
\* the reply if it has one, else the reply itself in its order if it is an
\* array, else the empty list; and the error state is clear whatever the
\* shape of the reply.
C10_PoolListNormalised ==
    Replied(poolsData) =>
        /\ pools = IF HasArray(poolsData, "pools") THEN poolsData[2].pools[2]
                   ELSE IF Tag(poolsData) = "arr" THEN poolsData[2]
                   ELSE <<>>
        /\ error = Null
        /\ IsVal(lastUpdated)

\* a bare array has been committed in its order
C10_Witness ==
    /\ poolsData = Arr(TwoItems)
    /\ pools = TwoItems
    /\ error = Null

-----------------------------------------------------------------------------
(* Claims about the miner lookup.                                           *)

Statistics == { r \in MinerReplies : Truthy(r) }
EmptyReplies == MinerReplies \ Statistics

\* C18 as stated: a lookup that ended with an empty reply leaves the result
\* none (null) and the "Miner not found" message; one that ended with a
\* statistics object leaves that object and no message; one that ended with a
\* transport failure leaves the result none and the retrieval-failure message.
C18_LookupOutcomeNull ==
    /\ ~submitting /\ lookupReply \in EmptyReplies
         => result = Null /\ lookupError = Val(NotFoundInPool)
    /\ ~minerLoading /\ minerReply \in EmptyReplies
         => minerStats = Null /\ minerError = Val(MinerNotFound)
    /\ ~submitting /\ lookupReply \in Statistics
         => result = lookupReply /\ lookupError = Null
    /\ ~minerLoading /\ minerReply \in Statistics
         => minerStats = minerReply /\ minerError = Null
    /\ ~submitting /\ lookupReply = FailedReply
         => result = Null /\ lookupError = Val(UnableToRetrieve)
    /\ ~minerLoading /\ minerReply = FailedReply
         => minerStats = Null /\ minerError = Val(UnableToFetch)

\* C18, amended: after an empty reply the result holds no statistics object (it
\* is null or the empty body as received, and nothing is displayed) and the
\* "Miner not found" message is set; the other two cases as stated.
C18_LookupOutcome ==
    /\ ~submitting /\ lookupReply \in EmptyReplies
         => ~Truthy(result) /\ lookupError = Val(NotFoundInPool)
    /\ ~minerLoading /\ minerReply \in EmptyReplies
         => ~Truthy(minerStats) /\ minerError = Val(MinerNotFound)
    /\ ~submitting /\ lookupReply \in Statistics
         => result = lookupReply /\ lookupError = Null
    /\ ~minerLoading /\ minerReply \in Statistics
         => minerStats = minerReply /\ minerError = Null
    /\ ~submitting /\ lookupReply = FailedReply
         => result = Null /\ lookupError = Val(UnableToRetrieve)
    /\ ~minerLoading /\ minerReply = FailedReply
         => minerStats = Null /\ minerError = Val(UnableToFetch)

\* the panel's lookup has ended with an empty body, the navigation's with a
\* transport failure after an earlier lookup had shown statistics
C18_Witness ==
    /\ ~submitting
    /\ lookupReply = JStr(<<>>)
    /\ lookupError = Val(NotFoundInPool)
    /\ ~minerLoading
    /\ minerReply = FailedReply
    /\ minerError = Val(UnableToFetch)

\* C25: on a network whose outcome is fixed for every endpoint, a settled
\* sample has the status that outcome gives, however many probes and retests
\* of the endpoint have completed: success where the connection is made,
\* error otherwise. Every completed retest therefore leaves the status the
\* first one left.
C25_RetestKeepsClassification ==
    \A id \in DOMAIN latencyMap \cap DOMAIN network :
        HasStatus(id, {"success", "error"}) =>
            latencyMap[id].status =
                (IF network[id] = "connect" THEN "success" ELSE "error")

\* both endpoints of a port map have settled samples, one on a network that
\* connects and one on a network that times out, as has the placeholder row
C25_Witness ==
    /\ RowIdsOf(Rows) = {RowId(3333), RowId(3355)}
    /\ network[RowId(3333)] = "connect" /\ network[RowId(3355)] = "timeout"
    /\ network[DefaultRowId] = "network-error"
    /\ \A id \in PolledIds : inflight[id] = 0
    /\ latencyMap[RowId(3333)] = [latency |-> Val(80), status |-> "success", error |-> Undef]
    /\ latencyMap[RowId(3355)].status = "error"
    /\ latencyMap[DefaultRowId].error = Val("network-error")
\* what a render over port map pm and samples lm shows as selected, the
\* selection state being gid, eid: a group of the option set of pm, and,
\* where there is a group, one of that group's endpoints
RenderedSelectionListed(pm, lm, gid, eid) ==
    LET group == EffectiveSelectedGroup(pm, lm, gid)
        endpoint == EffectiveSelectedEndpoint(pm, lm, gid, eid)
    IN /\ IsVal(group) =>
            /\ \E i \in DOMAIN connectionGroups[pm] : connectionGroups[pm][i] = Get(group)
            /\ IsVal(endpoint)
            /\ Get(endpoint).id \in RowIdsOf(Get(group).endpoints)
            /\ Get(endpoint).id \in RowIdsOf(connectionRows[pm])
       /\ ~IsVal(group) => endpoint = Null

\* C26: in every render the endpoint shown as selected is one of the endpoints
\* of the group shown as selected in the current option set, and there is one
\* whenever there is a group: in the render once the effects have run, and in
\* the first render after a step, which still has the selection state of
\* before.
C26_SelectedEndpointIsListed ==
    /\ [] RenderedSelectionListed(ports, latencyMap, selectedGroupId, selectedEndpointId)
    /\ [][ RenderedSelectionListed(ports', latencyMap', selectedGroupId,
                                   selectedEndpointId) ]_vars

\* the endpoint chosen by hand has left the port map, and another endpoint of
\* the selected group is shown
C26_Witness ==
    /\ IsVal(dropped)
    /\ Get(dropped) \notin RowIdsOf(Rows)
    /\ IsVal(EffectiveSelectedGroup(ports, latencyMap, selectedGroupId))
    /\ IsVal(EffectiveSelectedEndpoint(ports, latencyMap, selectedGroupId,
                                       selectedEndpointId))
    /\ manualSelection
\* C27: the sample map of the panel holds only keys of the locations listed.
C27_OnlyListedSamples == DOMAIN panelMap \subseteq RowIdsOf(Listed)

\* C28: a poll whose list still contains the pool the user picked, and which
\* finds that pool active, leaves it active.
C28_PickedPoolStaysActive ==
    [][ \A list \in ConnectPoolLists :
          ( /\ ConnectRefresh(list)
            /\ IsVal(userPick)
            /\ activePoolId = userPick
            /\ Get(userPick) \in PoolIdsOf(list) ) => activePoolId' = userPick ]_vars

\* the panel shows a location as unreachable only on an error sample
PanelUnreachableOnlyOnError ==
    \A i \in DOMAIN Listed :
        LET entry == EntryOf(panelMap, Listed[i].id)
        IN (latencyToBadge(entry) = "unreachable" \/ latencyDotClass(entry) = "bg-rose-500")
              => entry.status = "error"

\* the pool detail page shows a row as unreachable only on an error sample
PageUnreachableOnlyOnError ==
    \A i \in DOMAIN Rows :
        latencyStatusFor(latencyMap, Rows[i]) = "unreachable"
            => HasStatus(Rows[i].id, {"error"})

\* C29: an endpoint is shown as unreachable only when its sample has status
\* error, in the panel and on the pool detail page.
C29_UnreachableOnlyOnError ==
    PanelUnreachableOnlyOnError /\ PageUnreachableOnlyOnError
\* C30: a failed pools poll leaves the pool list and the last-updated time as
\* they were, sets the error message and clears loading; a failed blocks or
\* payments poll of the mounted page replaces that section's list with the
\* empty list and leaves the other section alone; a successful pools poll
\* clears the error.
C30_FailedPollFrame ==
    /\ [][ LoadRejected =>
             /\ pools' = pools /\ lastUpdated' = lastUpdated
             /\ error' = Val(PoolsLoadFailed) /\ loading' = FALSE
             /\ UNCHANGED detailVars ]_vars
    /\ [][ (active /\ BlocksRejected) =>
             /\ blocks' = <<>> /\ blocksError' = Val(BlocksUnavailable)
             /\ UNCHANGED <<payments, paymentsError, pools, error, lastUpdated>> ]_vars
    /\ [][ (active /\ PaymentsRejected) =>
             /\ payments' = <<>> /\ paymentsError' = Val(PaymentsUnavailable)
             /\ UNCHANGED <<blocks, blocksError, pools, error, lastUpdated>> ]_vars
    /\ [][ (\E data \in SectionBodies : LoadResolved(data)) => error' = Null ]_vars

\* a pools poll failed after one that loaded a list, and a payments poll failed
\* while the blocks are loaded
C30_Witness ==
    /\ active
    /\ pools = TwoItems /\ IsVal(lastUpdated)
    /\ poolsData = FailedReply /\ error = Val(PoolsLoadFailed) /\ ~loading
    /\ paymentsData = FailedReply /\ payments = <<>>
    /\ paymentsError = Val(PaymentsUnavailable)
    /\ blocks = TwoItems /\ blocksError = Null
====
